---------------------------- MODULE Spec2Model ----------------------------
(***************************************************************************)
(* Model of scripts/extract-catalog-pdf.py: the per-page pipeline that     *)
(* splits column text into product blocks at size+price anchors, numbers   *)
(* the decoded images of each column, joins both by (column, order), marks *)
(* products without an image, and finally expands the products into one    *)
(* staging row per size.                                                    *)
(*                                                                         *)
(* Text is a sequence of one-character strings; offsets are Python's       *)
(* (0-based, end exclusive).  Prices are held in cents.                     *)
(***************************************************************************)
EXTENDS Integers, Sequences, FiniteSets

(***************************************************************************)
(* Characters and character classes of the regular expressions.            *)
(***************************************************************************)
NoChar == ""

None == <<>>

DigitChars == <<"0", "1", "2", "3", "4", "5", "6", "7", "8", "9">>

Uppercase == <<"A", "B", "C", "D", "E", "F", "G", "H", "I", "J", "K", "L", "M", "N", "O", "P", "Q", "R", "S", "T", "U", "V", "W", "X", "Y", "Z">>

Lowercase == <<"a", "b", "c", "d", "e", "f", "g", "h", "i", "j", "k", "l", "m", "n", "o", "p", "q", "r", "s", "t", "u", "v", "w", "x", "y", "z">>

Range(s) == {s[i] : i \in DOMAIN s}

Digits == Range(DigitChars)

Letters == Range(Uppercase) \cup Range(Lowercase)

Whitespace == {" ", "\t", "\n"}

SizeChars == Letters \cup Digits \cup Whitespace \cup {",", "/", ".", "-"}

WordChars == Letters \cup Digits \cup {"_"}

Max(S) == CHOOSE x \in S : \A y \in S : y <= x

Min(S) == CHOOSE x \in S : \A y \in S : x <= y

(***************************************************************************)
(* String primitives.                                                       *)
(***************************************************************************)
At(text, k) == IF k >= 0 /\ k < Len(text) THEN text[k + 1] ELSE NoChar

Slice(text, a, b) == IF a < b THEN SubSeq(text, a + 1, b) ELSE <<>>

StartsWithAt(text, k, lit) ==
    /\ k + Len(lit) <= Len(text)
    /\ Slice(text, k, k + Len(lit)) = lit

StartsWith(text, lit) == StartsWithAt(text, 0, lit)

EndsWith(text, lit) ==
    /\ Len(lit) <= Len(text)
    /\ Slice(text, Len(text) - Len(lit), Len(text)) = lit

ToUpper(c) ==
    IF \E i \in DOMAIN Lowercase : Lowercase[i] = c
    THEN Uppercase[CHOOSE i \in DOMAIN Lowercase : Lowercase[i] = c]
    ELSE c

ToLower(c) ==
    IF \E i \in DOMAIN Uppercase : Uppercase[i] = c
    THEN Lowercase[CHOOSE i \in DOMAIN Uppercase : Uppercase[i] = c]
    ELSE c

Upper(s) == [i \in DOMAIN s |-> ToUpper(s[i])]

Lower(s) == [i \in DOMAIN s |-> ToLower(s[i])]

\* The end of the longest run of characters of class cls that starts at k.
RunEnd(text, k, cls) ==
    CHOOSE j \in k..Len(text) :
      At(text, j) \notin cls /\ \A i \in k..(j - 1) : At(text, i) \in cls

LStrip(s, cls) == Slice(s, RunEnd(s, 0, cls), Len(s))

RStrip(s, cls) ==
    Slice(s, 0, CHOOSE j \in 0..Len(s) :
                  (j = 0 \/ s[j] \notin cls) /\ \A i \in (j + 1)..Len(s) : s[i] \in cls)

Strip(s, cls) == RStrip(LStrip(s, cls), cls)

Indices(s) == [i \in 1..Len(s) |-> i]

\* re.sub(r"\s+", " ", s): each run of whitespace becomes one space
CollapseSpaces(s) ==
    LET kept == SelectSeq(Indices(s),
                          LAMBDA i : ~(s[i] \in Whitespace /\ i > 1 /\ s[i - 1] \in Whitespace))
    IN  [k \in DOMAIN kept |-> IF s[kept[k]] \in Whitespace THEN " " ELSE s[kept[k]]]

clean_spaces(value) == Strip(CollapseSpaces(value), Whitespace)

RECURSIVE ReplaceAll(_, _, _)
\* s.replace(old, new): the occurrences of old, left to right, without overlap
ReplaceAll(s, old, new) ==
    LET found == {k \in 0..Len(s) : StartsWithAt(s, k, old)}
    IN  IF found = {} THEN s
        ELSE Slice(s, 0, Min(found)) \o new
               \o ReplaceAll(Slice(s, Min(found) + Len(old), Len(s)), old, new)

DigitValue(c) == (CHOOSE i \in DOMAIN DigitChars : DigitChars[i] = c) - 1

RECURSIVE ToInt(_)
ToInt(digits) ==
    IF digits = <<>> THEN 0
    ELSE 10 * ToInt(Slice(digits, 0, Len(digits) - 1)) + DigitValue(digits[Len(digits)])

RECURSIVE ToDecimal(_)
ToDecimal(n) ==
    IF n < 10 THEN <<DigitChars[n + 1]>>
    ELSE ToDecimal(n \div 10) \o <<DigitChars[(n % 10) + 1]>>

\* format(n, "0<width>d"): at least width digits, zeros on the left.
ZeroPad(n, width) ==
    LET d == ToDecimal(n)
    IN  IF Len(d) >= width THEN d
        ELSE [i \in 1..width |-> IF i <= width - Len(d) THEN "0" ELSE d[i - (width - Len(d))]]

(***************************************************************************)
(* PRODUCT_PATTERN.  A backtracking matcher tries, in this order: the      *)
(* greedy quantifiers from their longest extent down, the lazy ones from   *)
(* their shortest up, the alternatives left to right; the first complete   *)
(* match wins.                                                              *)
(***************************************************************************)
TallasLiteral == <<"T", "a", "l", "l", "a", "s", ":">>

RECURSIVE PriceEndsFrom(_, _, _)
PriceEndsFrom(text, k, de) ==
    IF de <= k THEN <<>>
    ELSE LET frac == IF /\ At(text, de) = "."
                        /\ At(text, de + 1) \in Digits
                        /\ At(text, de + 2) \in Digits
                     THEN <<de + 3>> ELSE <<>>
         IN  frac \o <<de>> \o PriceEndsFrom(text, k, de - 1)

\* The ends "\d+(?:\.\d{2})?" can take from offset k, most preferred first.
PriceEnds(text, k) == PriceEndsFrom(text, k, RunEnd(text, k, Digits))

PriceFollows(text, t) == At(text, t) = "$" /\ PriceEnds(text, t + 1) # <<>>

\* Tallas:\s*(?P<sizes_a>[A-Za-z0-9,\s/.-]+?)\s*\$(?P<price_a>\d+(?:\.\d{2})?)
SizesThenPriceAt(text, k) ==
    IF ~StartsWithAt(text, k, TallasLiteral) THEN <<>>
    ELSE
      LET p == k + Len(TallasLiteral)
          \* the ends of the second \s* that let the price follow, sizes_a being [s, e)
          tOk(e) == {t \in e..RunEnd(text, e, Whitespace) : PriceFollows(text, t)}
          eOk(s) == {e \in (s + 1)..RunEnd(text, s, SizeChars) : tOk(e) # {}}
          sOk == {s \in p..RunEnd(text, p, Whitespace) : eOk(s) # {}}
      IN  IF sOk = {} THEN <<>>
          ELSE
            LET s == Max(sOk)
                e == Min(eOk(s))
                t == Max(tOk(e))
                pe == PriceEnds(text, t + 1)[1]
            IN  <<[start |-> k, end |-> pe,
                   sizes_a |-> Slice(text, s, e), price_a |-> Slice(text, t + 1, pe),
                   sizes_b |-> None, price_b |-> None]>>

\* \$(?P<price_b>\d+(?:\.\d{2})?)\s*Tallas:\s*(?P<sizes_b>[A-Za-z0-9,\s/.-]+?)
PriceThenSizesAt(text, k) ==
    IF At(text, k) # "$" THEN <<>>
    ELSE
      LET pes == PriceEnds(text, k + 1)
          \* sizes_b is the one character at v; Tallas: starts at u
          vOk(u) == {v \in (u + Len(TallasLiteral))..RunEnd(text, u + Len(TallasLiteral), Whitespace) :
                      At(text, v) \in SizeChars}
          uOk(i) == {u \in pes[i]..RunEnd(text, pes[i], Whitespace) :
                      StartsWithAt(text, u, TallasLiteral) /\ vOk(u) # {}}
          iOk == {i \in DOMAIN pes : uOk(i) # {}}
      IN  IF iOk = {} THEN <<>>
          ELSE
            LET i == Min(iOk)
                u == Max(uOk(i))
                v == Max(vOk(u))
            IN  <<[start |-> k, end |-> v + 1,
                   sizes_a |-> None, price_a |-> None,
                   sizes_b |-> Slice(text, v, v + 1), price_b |-> Slice(text, k + 1, pes[i])]>>

\* One attempt of PRODUCT_PATTERN at offset k: <<match>> or <<>>.
PRODUCT_PATTERN(text, k) ==
    LET a == SizesThenPriceAt(text, k)
    IN  IF a # <<>> THEN a ELSE PriceThenSizesAt(text, k)

RECURSIVE FindIterFrom(_, _)
\* The matches from offset pos on: the leftmost one, then those after its end.
FindIterFrom(text, pos) ==
    LET starts == {k \in pos..(Len(text) - 1) : PRODUCT_PATTERN(text, k) # <<>>}
    IN  IF starts = {} THEN <<>>
        ELSE LET m == PRODUCT_PATTERN(text, Min(starts))
             IN  m \o FindIterFrom(text, m[1].end)

\* list(PRODUCT_PATTERN.finditer(text))
FindIter(text) == FindIterFrom(text, 0)

(***************************************************************************)
(* parse_sizes                                                              *)
(***************************************************************************)
SizeLiterals == <<<<"X", "S">>, <<"S">>, <<"M">>, <<"L">>, <<"X", "L">>, <<"X", "X", "L">>, <<"X", "X", "X", "L">>, <<"U", "N", "I", "C", "A">>, <<"U">>>>

IsWordBoundary(s, k) == (At(s, k - 1) \in WordChars) # (At(s, k) \in WordChars)

\* The ends the alternation \d{2}|XS|S|...|U can take from k, in its order.
SizeAlternativeEnds(s, k) ==
    (IF At(s, k) \in Digits /\ At(s, k + 1) \in Digits THEN <<k + 2>> ELSE <<>>)
    \o [i \in 1..Len(SelectSeq(SizeLiterals, LAMBDA lit : StartsWithAt(s, k, lit)))
          |-> k + Len(SelectSeq(SizeLiterals, LAMBDA lit : StartsWithAt(s, k, lit))[i])]

\* \b(?:...)\b at k: <<end>> of the first alternative a boundary follows, or <<>>.
SizeTokenAt(s, k) ==
    LET ends == SelectSeq(SizeAlternativeEnds(s, k), LAMBDA e : IsWordBoundary(s, e))
    IN  IF IsWordBoundary(s, k) /\ ends # <<>> THEN <<ends[1]>> ELSE <<>>

RECURSIVE FindSizeTokens(_, _)
\* re.findall from offset pos on: the leftmost token, then those after its end.
FindSizeTokens(s, pos) ==
    LET starts == {k \in pos..(Len(s) - 1) : SizeTokenAt(s, k) # <<>>}
    IN  IF starts = {} THEN <<>>
        ELSE LET k == Min(starts)
                 m == SizeTokenAt(s, k)
             IN  <<Slice(s, k, m[1])>> \o FindSizeTokens(s, m[1])

parse_sizes(raw_sizes) ==
    LET cleaned == ReplaceAll(Upper(clean_spaces(raw_sizes)), <<" ", "Y", " ">>, <<",">>)
        tokens == FindSizeTokens(cleaned, 0)
    IN  IF tokens = <<>> THEN <<<<"U", "N", "I", "C", "A">>>>
        ELSE [i \in DOMAIN tokens |-> IF tokens[i] = <<"U">> THEN <<"U", "N", "I", "C", "A">> ELSE tokens[i]]

(***************************************************************************)
(* extract_brand_and_name                                                   *)
(***************************************************************************)
BRAND_CANDIDATES ==
    <<<<"Z", "a", "r", "a">>, <<"M", "a", "n", "g", "o">>, <<"P", "u", "l", "l", " ", "&", " ", "B", "e", "a", "r">>, <<"S", "t", "r", "a", "d", "i", "v", "a", "r", "i", "u", "s">>, <<"B", "e", "r", "s", "h", "k", "a">>, <<"H", "&", "M">>,
      <<"H", "M">>, <<"S", "f", "e", "r", "a">>, <<"F", "o", "r", "e", "v", "e", "r", " ", "2", "1">>, <<"L", "e", "f", "t", "i", "e", "s">>, <<"S", "h", "e", "i", "n">>, <<"M", "a", "s", "s", "i", "m", "o", " ", "D", "u", "t", "t", "i">>>>

Generica == <<"G", "e", "n", "e", "r", "i", "c", "a">>

ProductoSinNombre == <<"P", "r", "o", "d", "u", "c", "t", "o", " ", "s", "i", "n", " ", "n", "o", "m", "b", "r", "e">>

OrDefault(value, default) == IF value = <<>> THEN default ELSE value

BrandMatches(text, candidate) ==
    \/ StartsWith(Lower(text), Lower(candidate) \o <<" ">>)
    \/ EndsWith(Lower(text), <<" ">> \o Lower(candidate))

extract_brand_and_name(raw_chunk) ==
    LET t1 == clean_spaces(raw_chunk)
        t2 == LStrip(t1, Digits \cup {","} \cup Whitespace)
        text == Strip(clean_spaces(t2), {".", ",", "-", " "})
        hits == SelectSeq(BRAND_CANDIDATES, LAMBDA c : BrandMatches(text, c))
    IN  IF text = <<>> THEN [brand |-> Generica, name |-> ProductoSinNombre]
        ELSE IF hits = <<>> THEN [brand |-> Generica, name |-> text]
        ELSE LET candidate == hits[1]
             IN  IF StartsWith(Lower(text), Lower(candidate) \o <<" ">>)
                 THEN [brand |-> candidate,
                       name |-> OrDefault(clean_spaces(Slice(text, Len(candidate), Len(text))),
                                          ProductoSinNombre)]
                 ELSE [brand |-> candidate,
                       name |-> OrDefault(clean_spaces(Slice(text, 0, Len(text) - Len(candidate))),
                                          ProductoSinNombre)]

(***************************************************************************)
(* float(price_raw), in cents.                                              *)
(***************************************************************************)
IsDigits(s) == s # <<>> /\ \A i \in DOMAIN s : s[i] \in Digits

\* The literals the price groups (and the "0" default) can hold.
IsFloatLiteral(s) ==
    \/ IsDigits(s)
    \/ /\ Len(s) >= 4
       /\ s[Len(s) - 2] = "."
       /\ IsDigits(Slice(s, 0, Len(s) - 3))
       /\ IsDigits(Slice(s, Len(s) - 2, Len(s)))

float(s) ==
    IF IsDigits(s) THEN 100 * ToInt(s)
    ELSE 100 * ToInt(Slice(s, 0, Len(s) - 3)) + ToInt(Slice(s, Len(s) - 2, Len(s)))

(***************************************************************************)
(* Codes, SKUs and the rows of the two CSV outputs.                         *)
(***************************************************************************)
\* NFD leaves ASCII text unchanged and the texts of the model hold no mark.
strip_accents(value) == value

AlnumUpper == Range(Uppercase) \cup Digits

code4(value) ==
    LET compact == SelectSeq(Upper(strip_accents(value)), LAMBDA ch : ch \in AlnumUpper)
        head == OrDefault(Slice(compact, 0, IF Len(compact) < 4 THEN Len(compact) ELSE 4), <<"G", "E", "N", "R">>)
    IN  [i \in 1..4 |-> IF i <= Len(head) THEN head[i] ELSE "X"]

category_code(category) == code4(category)

brand_code(brand) == code4(brand)

make_sku(category, brand, counter, size) ==
    <<"A", "M", "N", "-">> \o category_code(category) \o <<"-">> \o brand_code(brand) \o <<"-">>
        \o ZeroPad(counter, 4) \o <<"-">> \o size

\* format(price, ".2f") of a price held in cents
FormatPrice(cents) == ToDecimal(cents \div 100) \o <<".">> \o ZeroPad(cents % 100, 2)

StagingRow(product, product_counter, size) ==
    [sku |-> make_sku(product.category, product.brand, product_counter, size),
     name |-> product.name,
     category |-> product.category,
     size |-> size,
     price |-> FormatPrice(product.price),
     image_filename |-> product.image_filename,
     brand |-> product.brand,
     source_page |-> ToDecimal(product.page),
     confidence |-> product.confidence]

RECURSIVE StagingRowsFrom(_, _)
StagingRowsFrom(products, product_counter) ==
    IF product_counter > Len(products) THEN <<>>
    ELSE LET product == products[product_counter]
         IN  [i \in DOMAIN product.sizes |-> StagingRow(product, product_counter, product.sizes[i])]
             \o StagingRowsFrom(products, product_counter + 1)

\* The rows write_staging_csv writes, in order.
write_staging_csv(products) == StagingRowsFrom(products, 1)

ReviewRow(product, filename) ==
    [page |-> ToDecimal(product.page),
     column |-> product.column,
     order_in_column |-> ToDecimal(product.order_in_column),
     product_name |-> product.name,
     brand |-> product.brand,
     image_filename |-> filename,
     confidence |-> product.confidence]

(***************************************************************************)
(* parse_products_from_text: the pieces of one loop iteration.              *)
(***************************************************************************)
GroupOr(a, b, default) == IF a # None THEN a ELSE IF b # None THEN b ELSE default

\* Faulty variant: the counter advances at every anchor, emitted or not.
order_after_every_anchor(order, emitted) == order + 1

\* order after an iteration: "order += 1" sits after both "continue"s.
order_after(order, emitted) == IF emitted THEN order + 1 ELSE order

ProductBlock(page_number, column, order, category, chunk, sizes, price) ==
    LET bn == extract_brand_and_name(chunk)
    IN  [page |-> page_number,
         column |-> column,
         order_in_column |-> order,
         name |-> bn.name,
         brand |-> bn.brand,
         category |-> category,
         sizes |-> sizes,
         price |-> price,
         image_filename |-> <<>>,
         confidence |-> IF bn.brand = Generica THEN "low" ELSE "medium",
         source_text |-> chunk]

Warning(kind, page_number, column, subject) ==
    [kind |-> kind, page |-> page_number, column |-> column, subject |-> subject]

(***************************************************************************)
(* extract_images_from_page                                                 *)
(***************************************************************************)
KeyLE(a, b) == a.top < b.top \/ (a.top = b.top /\ a.x0 <= b.x0)

\* x placed behind the last element whose key is not greater (a stable sort)
InsertSorted(sorted, x) ==
    LET n == Max({0} \cup {j \in DOMAIN sorted : KeyLE(sorted[j], x)})
    IN  Slice(sorted, 0, n) \o <<x>> \o Slice(sorted, n, Len(sorted))

RECURSIVE SortByTopX0(_)
SortByTopX0(images) ==
    IF images = <<>> THEN <<>>
    ELSE InsertSorted(SortByTopX0(Slice(images, 0, Len(images) - 1)), images[Len(images)])

ImageFilename(page_number, index) ==
    <<"I", "M", "G", "-", "P">> \o ZeroPad(page_number, 3) \o <<"-", "I">> \o ZeroPad(index, 2) \o <<".", "p", "n", "g">>

\* The outcome of save_pdf_image is the codec's: the image carries it.
save_pdf_image(image_info) == image_info.ok

ColumnOf(x0, width) == IF 2 * x0 < width THEN "left" ELSE "right"

\* Faulty variant: the slots are numbered over the page, not within their column.
order_in_page_of(extracted, i) == i

\* The 1-based position of extracted[i] in its column's list sorted by (top, x0).
order_in_column_of(extracted, i) ==
    LET per_col == SortByTopX0(SelectSeq(extracted, LAMBDA img : img.column = extracted[i].column))
    IN  CHOOSE idx \in DOMAIN per_col : per_col[idx].filename = extracted[i].filename

extract_images_from_page(page, page_number) ==
    LET images_sorted == SortByTopX0(page.images)
        indexed == [index \in DOMAIN images_sorted |->
                      [page |-> page_number,
                       column |-> ColumnOf(images_sorted[index].x0, page.width),
                       order_in_column |-> 0,
                       filename |-> ImageFilename(page_number, index),
                       top |-> images_sorted[index].top,
                       x0 |-> images_sorted[index].x0,
                       ok |-> save_pdf_image(images_sorted[index])]]
        kept == SelectSeq(indexed, LAMBDA img : img.ok)
        extracted == [i \in DOMAIN kept |->
                        [f \in {"page", "column", "order_in_column", "filename", "top", "x0"}
                           |-> kept[i][f]]]
    IN  [i \in DOMAIN extracted |->
           [extracted[i] EXCEPT !.order_in_column = order_in_column_of(extracted, i)]]

(***************************************************************************)
(* assign_images_to_products and the missing-image rule of run_extraction   *)
(***************************************************************************)
\* Faulty variant: the lookup goes by the order alone, whatever the column.
images_by_order_get(page_images, column, order) ==
    LET hits == SelectSeq(page_images, LAMBDA img : img.order_in_column = order)
    IN  IF hits = <<>> THEN <<>> ELSE hits[Len(hits)].filename

\* images_by_key.get((column, order), ""): a later image overwrites an equal key
images_by_key_get(page_images, column, order) ==
    LET hits == SelectSeq(page_images,
                          LAMBDA img : img.column = column /\ img.order_in_column = order)
    IN  IF hits = <<>> THEN <<>> ELSE hits[Len(hits)].filename

assign_images_to_products(products, page_images) ==
    LET filename(i) == images_by_key_get(page_images, products[i].column,
                                         products[i].order_in_column)
    IN  [products |-> [i \in DOMAIN products |-> [products[i] EXCEPT !.image_filename = filename(i)]],
         review_rows |-> [i \in DOMAIN products |-> ReviewRow(products[i], filename(i))]]

\* Faulty variant: every product of the page is demoted, with an image or not.
mark_every(product) == [product EXCEPT !.confidence = "low"]

mark_missing(product) ==
    IF product.image_filename = <<>> THEN [product EXCEPT !.confidence = "low"] ELSE product

(***************************************************************************)
(* The state of run_extraction.                                             *)
(***************************************************************************)
VARIABLES
    pdf,               \* the pages: per column the upright words in reading order,
                       \* the page's images, its category and its width
    pc,                \* where run_extraction is
    index,             \* the number of the page being processed
    page_warnings,
    column,            \* parse_products_from_text: the column of the current call
    text,              \*   its text
    matches,           \*   list(PRODUCT_PATTERN.finditer(text))
    match_idx,         \*   how many matches the loop has been through
    prev_end,
    order,
    products,
    left_products,
    page_products,
    page_images,
    page_review_rows,
    all_products,
    image_review_rows,
    global_warnings,
    pages_report,
    staging_rows,      \* catalog_staging.csv
    image_map_rows,    \* image-map-review.csv
    report

vars == <<pdf, pc, index, page_warnings, column, text, matches, match_idx, prev_end, order,
          products, left_products, page_products, page_images, page_review_rows,
          all_products, image_review_rows, global_warnings, pages_report,
          staging_rows, image_map_rows, report>>

parseVars == <<column, text, matches, match_idx, prev_end, order, products, left_products>>

pageVars == <<page_products, page_images, page_review_rows>>

runVars == <<all_products, image_review_rows, global_warnings, pages_report>>

outVars == <<staging_rows, image_map_rows, report>>

RECURSIVE JoinWords(_)
\* " ".join(words)
JoinWords(words) ==
    IF words = <<>> THEN <<>>
    ELSE IF Len(words) = 1 THEN words[1]
    ELSE JoinWords(Slice(words, 0, Len(words) \div 2)) \o <<" ">>
           \o JoinWords(Slice(words, Len(words) \div 2, Len(words)))

\* extract_column_text, from the column's words once selected and sorted
extract_column_text(page, col) ==
    clean_spaces(JoinWords(IF col = "left" THEN page.left ELSE page.right))

(***************************************************************************)
(* The catalogues the runs are drawn from.                                  *)
(***************************************************************************)
MaxPhrases == 4

MaxLines == 2

MaxImages == 3

MaxSlots == 3

MaxPages == 2

NamePhrases == {<<<<"Z", "a", "r", "a">>, <<"T", "o", "p">>>>, <<<<"T", "o", "p">>>>}

SizeLists == {<<<<"2", "8", ",", "3", "0">>>>, <<<<"U", ",">>, <<"U", "N", "I", "C", "A">>>>}

SizesThenPrice(sizes, price) == <<<<"T", "a", "l", "l", "a", "s", ":">>>> \o sizes \o <<price>>

PriceThenSizes(sizes, price) == <<price, <<"T", "a", "l", "l", "a", "s", ":">>>> \o sizes

\* The fragments a column is printed from: a name, or an anchor in either order.
Phrases ==
    NamePhrases
    \cup {SizesThenPrice(sz, <<"$", "2", "5", ".", "0", "0">>) : sz \in SizeLists}
    \cup {PriceThenSizes(sz, <<"$", "2", "5", ".", "0", "0">>) : sz \in SizeLists}

\* Whole product lines: a name and its "Tallas: ... $price" anchor.
Lines == {n \o SizesThenPrice(<<<<"U", ",">>, <<"U", "N", "I", "C", "A">>>>, <<"$", "9">>) : n \in NamePhrases}

BrandLines == {<<<<"Z", "a", "r", "a">>, <<"T", "o", "p">>>> \o SizesThenPrice(<<<<"S">>>>, <<"$", "9">>)}

RECURSIVE Concatenations(_, _)
\* The word lists made of at most n of the given pieces.
Concatenations(pieces, n) ==
    IF n = 0 THEN {<<>>}
    ELSE LET shorter == Concatenations(pieces, n - 1)
         IN  shorter \cup {a \o b : a \in shorter, b \in pieces}

RECURSIVE SeqsUpTo(_, _)
SeqsUpTo(S, n) ==
    IF n = 0 THEN {<<>>}
    ELSE LET shorter == SeqsUpTo(S, n - 1)
         IN  shorter \cup {Append(a, b) : a \in shorter, b \in S}

Categories == {<<"S", "i", "n", " ", "c", "a", "t", "e", "g", "o", "r", "i", "a">>}

Widths == {4}

\* Images anywhere on the page, decodable or not.
Images == [top : {10, 20}, x0 : {0, 1, 2}, ok : BOOLEAN]

\* Images of one row, one per column position.
RowImages == [top : {10}, x0 : {0, 2}, ok : BOOLEAN]

Pages(lefts, rights, imageLists) ==
    [left : lefts, right : rights, images : imageLists,
     category : Categories, width : Widths]

TextPages == Pages(Concatenations(Phrases, MaxPhrases), {<<>>}, {<<>>})

ImagePages == Pages(BrandLines, {<<>>}, SeqsUpTo(Images, MaxImages))

JoinPages ==
    Pages(Concatenations(Lines, MaxLines), Concatenations(BrandLines, MaxLines),
          SeqsUpTo(RowImages, MaxSlots))

RunPages ==
    Pages({<<>>} \cup Lines, {<<>>}, {<<>>} \cup {<<img>> : img \in RowImages})

InitRun(pdfs) ==
    /\ pdf \in pdfs
    /\ pc = "page_loop"
    /\ index = 0
    /\ page_warnings = <<>>
    /\ column = "left"
    /\ text = <<>>
    /\ matches = <<>>
    /\ match_idx = 0
    /\ prev_end = 0
    /\ order = 0
    /\ products = <<>>
    /\ left_products = <<>>
    /\ page_products = <<>>
    /\ page_images = <<>>
    /\ page_review_rows = <<>>
    /\ all_products = <<>>
    /\ image_review_rows = <<>>
    /\ global_warnings = <<>>
    /\ pages_report = <<>>
    /\ staging_rows = <<>>
    /\ image_map_rows = <<>>
    /\ report = <<>>

Init == InitRun(SeqsUpTo(RunPages, MaxPages) \ {<<>>})

InitText == InitRun({<<p>> : p \in TextPages})

InitImages == InitRun({<<p>> : p \in ImagePages})

InitJoin == InitRun({<<p>> : p \in JoinPages})

(***************************************************************************)
(* run_extraction, one action per step.                                     *)
(***************************************************************************)
\* for index, page in enumerate(pdf.pages, start=1): up to the first call of
\* parse_products_from_text, with the left column's text
NextPage ==
    /\ pc = "page_loop"
    /\ index < Len(pdf)
    /\ index' = index + 1
    /\ page_warnings' = <<>>
    /\ column' = "left"
    /\ text' = extract_column_text(pdf[index + 1], "left")
    /\ pc' = "parse_call"
    /\ UNCHANGED <<pdf, matches, match_idx, prev_end, order, products, left_products>>
    /\ UNCHANGED <<pageVars, runVars, outVars>>

\* parse_products_from_text down to the loop: the two early returns leave no match
ParseCall ==
    /\ pc = "parse_call"
    /\ products' = <<>>
    /\ prev_end' = 0
    /\ order' = 0
    /\ match_idx' = 0
    /\ IF text = <<>>
       THEN /\ matches' = <<>>
            /\ UNCHANGED page_warnings
       ELSE /\ matches' = FindIter(text)
            /\ page_warnings' =
                 IF FindIter(text) = <<>>
                 THEN Append(page_warnings, Warning("no_blocks", index, column, <<>>))
                 ELSE page_warnings
    /\ pc' = "match_loop"
    /\ UNCHANGED <<pdf, index, column, text, left_products, pageVars, runVars, outVars>>

\* one iteration of "for match in matches"
ParseMatch ==
    /\ pc = "match_loop"
    /\ match_idx < Len(matches)
    /\ LET match == matches[match_idx + 1]
           chunk == clean_spaces(Slice(text, prev_end, match.start))
           sizes_raw == GroupOr(match.sizes_a, match.sizes_b, <<>>)
           price_raw == GroupOr(match.price_a, match.price_b, <<"0">>)
       IN  /\ prev_end' = match.end
           /\ match_idx' = match_idx + 1
           /\ IF chunk = <<>>
              THEN /\ order' = order_after(order, FALSE)
                   /\ UNCHANGED <<products, page_warnings>>
              ELSE IF ~IsFloatLiteral(price_raw)
              THEN /\ order' = order_after(order, FALSE)
                   /\ page_warnings' =
                        Append(page_warnings,
                               Warning("bad_price", index, column,
                                       price_raw \o Slice(chunk, 0, IF Len(chunk) < 60 THEN Len(chunk) ELSE 60)))
                   /\ UNCHANGED products
              ELSE /\ order' = order_after(order, TRUE)
                   /\ products' =
                        Append(products,
                               ProductBlock(index, column, order_after(order, TRUE),
                                            pdf[index].category, chunk,
                                            parse_sizes(sizes_raw), float(price_raw)))
                   /\ UNCHANGED page_warnings
    /\ UNCHANGED <<pdf, pc, index, column, text, matches, left_products>>
    /\ UNCHANGED <<pageVars, runVars, outVars>>

\* return products: to the right column's call, or to the page's product list
ParseReturn ==
    /\ pc = "match_loop"
    /\ match_idx = Len(matches)
    /\ IF column = "left"
       THEN /\ left_products' = products
            /\ column' = "right"
            /\ text' = extract_column_text(pdf[index], "right")
            /\ pc' = "parse_call"
            /\ UNCHANGED page_products
       ELSE /\ page_products' = left_products \o products
            /\ pc' = "extract_images"
            /\ UNCHANGED <<left_products, column, text>>
    /\ UNCHANGED <<pdf, index, page_warnings, matches, match_idx, prev_end, order, products>>
    /\ UNCHANGED <<page_images, page_review_rows, runVars, outVars>>

ExtractImages ==
    /\ pc = "extract_images"
    /\ page_images' = extract_images_from_page(pdf[index], index)
    /\ pc' = "assign_images"
    /\ UNCHANGED <<pdf, index, page_warnings, parseVars>>
    /\ UNCHANGED <<page_products, page_review_rows, runVars, outVars>>

AssignImages ==
    /\ pc = "assign_images"
    /\ page_products' = assign_images_to_products(page_products, page_images).products
    /\ page_review_rows' = assign_images_to_products(page_products, page_images).review_rows
    /\ pc' = "mark_missing"
    /\ UNCHANGED <<pdf, index, page_warnings, parseVars, page_images, runVars, outVars>>

\* "Mark missing images for manual review."
MarkMissing ==
    /\ pc = "mark_missing"
    /\ page_products' = [i \in DOMAIN page_products |-> mark_missing(page_products[i])]
    /\ page_warnings' =
         page_warnings
         \o [i \in 1..Len(SelectSeq(page_products, LAMBDA p : p.image_filename = <<>>)) |->
               Warning("no_image", index, <<>>,
                       SelectSeq(page_products, LAMBDA p : p.image_filename = <<>>)[i].name)]
    /\ pc' = "accumulate"
    /\ UNCHANGED <<pdf, index, parseVars, page_images, page_review_rows, runVars, outVars>>

\* the extends and the page's report entry
Accumulate ==
    /\ pc = "accumulate"
    /\ all_products' = all_products \o page_products
    /\ image_review_rows' = image_review_rows \o page_review_rows
    /\ global_warnings' = global_warnings \o page_warnings
    /\ pages_report' =
         Append(pages_report,
                [page |-> index,
                 category |-> pdf[index].category,
                 products_detected |-> Len(page_products),
                 images_extracted |-> Len(page_images),
                 warnings |-> page_warnings])
    /\ pc' = "page_loop"
    /\ UNCHANGED <<pdf, index, page_warnings, parseVars, pageVars, outVars>>

WriteStaging ==
    /\ pc = "page_loop"
    /\ index = Len(pdf)
    /\ staging_rows' = write_staging_csv(all_products)
    /\ pc' = "write_image_map"
    /\ UNCHANGED <<pdf, index, page_warnings, parseVars, pageVars, runVars>>
    /\ UNCHANGED <<image_map_rows, report>>

WriteImageMap ==
    /\ pc = "write_image_map"
    /\ image_map_rows' = image_review_rows
    /\ pc' = "write_report"
    /\ UNCHANGED <<pdf, index, page_warnings, parseVars, pageVars, runVars>>
    /\ UNCHANGED <<staging_rows, report>>

WriteReport ==
    /\ pc = "write_report"
    /\ report' = <<[total_pages |-> Len(pages_report),
                    products_detected |-> Len(all_products),
                    variant_rows_written |-> Len(staging_rows),
                    warnings_count |-> Len(global_warnings)]>>
    /\ pc' = "done"
    /\ UNCHANGED <<pdf, index, page_warnings, parseVars, pageVars, runVars>>
    /\ UNCHANGED <<staging_rows, image_map_rows>>

Next ==
    \/ NextPage
    \/ ParseCall
    \/ ParseMatch
    \/ ParseReturn
    \/ ExtractImages
    \/ AssignImages
    \/ MarkMissing
    \/ Accumulate
    \/ WriteStaging
    \/ WriteImageMap
    \/ WriteReport

\* Runs over catalogues of up to MaxPages pages.
Spec == Init /\ [][Next]_vars

\* One page; the left column ranges over the texts made of up to MaxPhrases fragments.
SpecText == InitText /\ [][Next]_vars

\* One page; its images range over the lists of up to MaxImages images.
SpecImages == InitImages /\ [][Next]_vars

\* One page; up to MaxLines product lines a column against up to MaxSlots images.
SpecJoin == InitJoin /\ [][Next]_vars

(***************************************************************************)
(* Properties.                                                              *)
(***************************************************************************)
\* The loop of parse_products_from_text has been through all matches of the
\* current column: "products" is what the call returns.
ParseDone == pc = "match_loop" /\ match_idx = Len(matches)

\* The cleaned text between the (j-1)-th anchor's end and the j-th anchor's start.
ChunkOf(j) ==
    clean_spaces(Slice(text, IF j = 1 THEN 0 ELSE matches[j - 1].end, matches[j].start))

InColumn(seq, col) == SelectSeq(seq, LAMBDA e : e.column = col)

\* C1: the order_in_column values of the products parse_products_from_text
\* builds are 1, 2, ..., M in emission order: the i-th product emitted for a
\* column text carries order_in_column = i, whatever anchors were skipped.
C1_OrdersAreContiguous ==
    \A i \in DOMAIN products : products[i].order_in_column = i

\* C1 witness: a column whose first anchor had an empty chunk and emitted
\* nothing, and whose later anchors emitted two products or more.
C1_Witness ==
    /\ ParseDone
    /\ Len(matches) >= 3
    /\ ChunkOf(1) = <<>>
    /\ Len(products) >= 2
    /\ Len(products) < Len(matches)

\* C2: extract_images_from_page makes one slot per decoded image and none for
\* an image whose decode failed; a slot is "left" iff its x0 is below half the
\* page width; within a column the orders are exactly 1..N, without repeats,
\* and ascend with (top, x0).
C2_SlotsPerColumn ==
    pc = "assign_images" =>
      LET page == pdf[index]
          decoded == SelectSeq(page.images, LAMBDA img : img.ok)
      IN  /\ Len(page_images) = Len(decoded)
          /\ \A t \in {img.top : img \in Range(page.images)} :
               \A x \in {img.x0 : img \in Range(page.images)} :
                 Len(SelectSeq(page_images, LAMBDA s : s.top = t /\ s.x0 = x))
                   = Len(SelectSeq(decoded, LAMBDA img : img.top = t /\ img.x0 = x))
          /\ \A i \in DOMAIN page_images :
               page_images[i].column = "left" <=> 2 * page_images[i].x0 < page.width
          /\ \A col \in {"left", "right"} :
               LET slots == InColumn(page_images, col)
               IN  /\ {slots[i].order_in_column : i \in DOMAIN slots} = 1..Len(slots)
                   /\ \A i, j \in DOMAIN slots :
                        /\ i # j => slots[i].order_in_column # slots[j].order_in_column
                        /\ slots[i].order_in_column < slots[j].order_in_column
                             => \/ slots[i].top < slots[j].top
                                \/ /\ slots[i].top = slots[j].top
                                   /\ slots[i].x0 <= slots[j].x0

\* C2 witness: an image that failed to decode lies above two decoded images
\* of its own column, which hold the slots 1 and 2 of that column.
C2_Witness ==
    /\ pc = "assign_images"
    /\ \E f \in Range(pdf[index].images) :
         /\ ~f.ok
         /\ \E i, j \in DOMAIN page_images :
              /\ page_images[i].column = ColumnOf(f.x0, pdf[index].width)
              /\ page_images[j].column = page_images[i].column
              /\ f.top < page_images[i].top
              /\ page_images[i].order_in_column = 1
              /\ page_images[j].order_in_column = 2
    /\ \E i \in DOMAIN page_images : page_images[i].column = "right"

\* The filenames of the slots whose key is exactly the product's (column, order).
SlotFilenames(product) ==
    {s.filename : s \in {s \in Range(page_images) :
                           /\ s.column = product.column
                           /\ s.order_in_column = product.order_in_column}}

Unmatched == SelectSeq(page_products, LAMBDA p : SlotFilenames(p) = {})

MissingImageWarnings == SelectSeq(page_warnings, LAMBDA w : w.kind = "no_image")

\* After a page is processed a product carries the filename of the slot with
\* its own (column, order) when there is one; when there is none, its filename
\* is empty, its confidence is "low", and the page's missing-image warnings are
\* one per such product, naming it.
IndexJoin ==
    /\ \A i \in DOMAIN page_products :
         LET p == page_products[i]
         IN  IF SlotFilenames(p) # {}
             THEN SlotFilenames(p) = {p.image_filename}
             ELSE p.image_filename = <<>> /\ p.confidence = "low"
    /\ Len(MissingImageWarnings) = Len(Unmatched)
    /\ \A i \in DOMAIN Unmatched :
         /\ MissingImageWarnings[i].page = index
         /\ MissingImageWarnings[i].subject = Unmatched[i].name

TwoProductsPerColumn ==
    /\ Len(InColumn(page_products, "left")) = 2
    /\ Len(InColumn(page_products, "right")) = 2

OneUnmatched == Len(Unmatched) = 1 /\ Len(MissingImageWarnings) = 1

\* C3, as stated: the index join, and with 2 products per column and 3 decoded
\* images exactly one product is unmatched and one warning is added.
C3_ThreeImagesLeaveOneUnmatched ==
    pc = "accumulate" =>
      /\ IndexJoin
      /\ (TwoProductsPerColumn /\ Len(page_images) = 3) => OneUnmatched

\* C3, amended: the index join, and with 2 products per column and 3 decoded
\* images of which no column holds more than two, exactly one product is
\* unmatched and one warning is added.
C3_IndexJoin ==
    pc = "accumulate" =>
      /\ IndexJoin
      /\ ( /\ TwoProductsPerColumn
           /\ Len(page_images) = 3
           /\ Len(InColumn(page_images, "left")) <= 2
           /\ Len(InColumn(page_images, "right")) <= 2 ) => OneUnmatched

\* C3 witness: 2 products per column, 3 decoded images (2 and 1); the one
\* product without a slot was parsed with a known brand and is now "low".
C3_Witness ==
    /\ pc = "accumulate"
    /\ TwoProductsPerColumn
    /\ Len(page_images) = 3
    /\ Len(InColumn(page_images, "left")) <= 2
    /\ Len(InColumn(page_images, "right")) <= 2
    /\ Len(Unmatched) = 1
    /\ Unmatched[1].brand # Generica
    /\ Unmatched[1].confidence = "low"
    /\ \E i \in DOMAIN page_products : page_products[i].image_filename # <<>>

\* The size list and the price the anchors of Phrases print.
PrintedPrice == <<"$", "2", "5", ".", "0", "0">>

\* C4: a column that prints a name and one anchor, in either order, yields one
\* product with the printed price and with the vocabulary tokens of the whole
\* printed size list.
C4_BothOrderings ==
    \A n \in NamePhrases : \A sz \in SizeLists :
      ( /\ ParseDone
        /\ column = "left"
        /\ pdf[index].left \in {n \o SizesThenPrice(sz, PrintedPrice),
                                n \o PriceThenSizes(sz, PrintedPrice)} )
      => /\ Len(products) = 1
         /\ products[1].price = float(Tail(PrintedPrice))
         /\ products[1].sizes = parse_sizes(JoinWords(sz))

\* C5: every iteration of the loop over the anchor matches either emits a
\* product or appends a warning.
C5_NoSilentDrop ==
    [][(pc = "match_loop" /\ match_idx' = match_idx + 1)
         => \/ Len(products') = Len(products) + 1
            \/ Len(page_warnings') = Len(page_warnings) + 1]_vars

NoBlocksWarnings ==
    SelectSeq(page_warnings,
              LAMBDA w : w.kind = "no_blocks" /\ w.page = index /\ w.column = column)

\* C6: once parse_products_from_text has looked for anchors, the page holds
\* exactly one no-blocks warning for the column when the column's text (empty
\* or not) has no anchor, with no product, and none when it has an anchor.
C6_WarningIffNoAnchor ==
    pc = "match_loop" =>
      IF FindIter(text) = <<>>
      THEN products = <<>> /\ Len(NoBlocksWarnings) = 1
      ELSE NoBlocksWarnings = <<>>

\* C7: while a page's products are joined and marked, a "medium" product
\* becomes "low" only with an empty image filename and a product with an image
\* keeps its confidence; and a product in the run's accumulator keeps its
\* confidence and its image filename in every later step.
C7_ConfidenceMonotone ==
    [][ /\ (pc \in {"assign_images", "mark_missing"})
           => /\ Len(page_products') = Len(page_products)
              /\ \A i \in DOMAIN page_products :
                   /\ page_products'[i].confidence # page_products[i].confidence
                        => /\ page_products[i].confidence = "medium"
                           /\ page_products'[i].confidence = "low"
                           /\ page_products'[i].image_filename = <<>>
                   /\ page_products'[i].image_filename # <<>>
                        => page_products'[i].confidence = page_products[i].confidence
        /\ Len(all_products') >= Len(all_products)
        /\ \A i \in DOMAIN all_products :
             /\ all_products'[i].confidence = all_products[i].confidence
             /\ all_products'[i].image_filename = all_products[i].image_filename
      ]_vars

\* C7 witness: the second page has been marked; the accumulator holds a
\* "medium" product with its image, and the page a branded product that lost
\* its "medium" for want of an image.
C7_Witness ==
    /\ pc = "accumulate"
    /\ index = 2
    /\ \E i \in DOMAIN all_products :
         all_products[i].confidence = "medium" /\ all_products[i].image_filename # <<>>
    /\ \E i \in DOMAIN page_products :
         /\ page_products[i].brand # Generica
         /\ page_products[i].confidence = "low"
         /\ page_products[i].image_filename = <<>>

\* C8, as stated: the order_in_column of an emitted product is the 1-based
\* position of its anchor among all anchor matches of the column's text.
C8_OrderIsAnchorPosition ==
    [][(pc = "match_loop" /\ Len(products') = Len(products) + 1)
         => products'[Len(products')].order_in_column = match_idx']_vars

\* C8, amended: the order_in_column of an emitted product is the 1-based
\* position of its anchor among the anchor matches that have a non-empty
\* chunk; an anchor with an empty chunk emits nothing and leaves the counter.
C8_OrderIsEmittedPosition ==
    [][(pc = "match_loop" /\ match_idx' = match_idx + 1)
         => IF ChunkOf(match_idx + 1) = <<>>
            THEN products' = products /\ order' = order
            ELSE /\ Len(products') = Len(products) + 1
                 /\ products'[Len(products')].order_in_column
                      = Cardinality({j \in 1..(match_idx + 1) : ChunkOf(j) # <<>>})
                 /\ order' = products'[Len(products')].order_in_column]_vars

\* C8 witness: the first anchor had an empty chunk, and the anchor just
\* processed emitted a product whose order is below its anchor's position.
C8_Witness ==
    /\ pc = "match_loop"
    /\ match_idx >= 2
    /\ ChunkOf(1) = <<>>
    /\ ChunkOf(match_idx) # <<>>
    /\ products # <<>>
    /\ products[Len(products)].order_in_column < match_idx

\* The product counter printed in a SKU: AMN-cccc-bbbb-<counter>-<size>.
SkuCounter(sku) == Slice(sku, 14, 18)

\* C9: the i-th review row and the staging rows of the i-th product carry the
\* same confidence, and a review row with no image filename is "low".
C9_OutputsAgreeOnConfidence ==
    pc = "done" =>
      \A i \in DOMAIN image_map_rows :
        /\ \A k \in DOMAIN staging_rows :
             SkuCounter(staging_rows[k].sku) = ZeroPad(i, 4)
               => staging_rows[k].confidence = image_map_rows[i].confidence
        /\ image_map_rows[i].image_filename = <<>>
             => image_map_rows[i].confidence = "low"

\* C10: no two rows of the staging output carry the same SKU.
C10_SkusAreUnique ==
    pc = "done" =>
      \A i, j \in DOMAIN staging_rows :
        i # j => staging_rows[i].sku # staging_rows[j].sku
=============================================================================
